---------------------------- MODULE Spec2Model ----------------------------
(***************************************************************************)
(* Model of package kuid (src/kuid.go): a 128-bit identifier held as two   *)
(* uint64 halves, with its base-62, UUID-text and 16-byte conversions.     *)
(*                                                                         *)
(* Representation.  A Go string or []byte is a sequence of byte values     *)
(* 0..255 (index i of the code is index i+1 here).  A uint64 is a tuple of *)
(* four 16-bit limbs, most significant first, because the integers of TLC  *)
(* are narrower than 64 bits; arithmetic on it is done limb by             *)
(* limb and wraps modulo 2^64 exactly as Go's does.  A *KUID is <<>> for   *)
(* nil and <<[msb, lsb]>> for a pointer to a value.  An error is the       *)
(* message of the error value; the message identifies the value, since     *)
(* every error value of the package has its own message.                   *)
(***************************************************************************)
EXTENDS Integers, Sequences, FiniteSets, TLC

VARIABLES input, edits, calls, k, k2, err, out, panicked

vars == <<input, edits, calls, k, k2, err, out, panicked>>

---------------------------------------------------------------------------
(* Bounds of the exploration *)

\* how many single-byte edits the caller applies to a base input
MaxEdits == 1

---------------------------------------------------------------------------
(* Constants of the package *)

base62Chars ==
  <<48, 49, 50, 51, 52, 53, 54, 55, 56, 57,
    65, 66, 67, 68, 69, 70, 71, 72, 73, 74, 75, 76, 77,
    78, 79, 80, 81, 82, 83, 84, 85, 86, 87, 88, 89, 90,
    97, 98, 99, 100, 101, 102, 103, 104, 105, 106, 107, 108, 109,
    110, 111, 112, 113, 114, 115, 116, 117, 118, 119, 120, 121, 122>>

base == Len(base62Chars)

size == 11

ErrNil == "nil"

ErrInvalidLength == "invalid KUID string length"

ErrInvalidChar == "invalid character in KUID string"

ErrInvalidUUID == "invalid UUID format"

\* the value errors.New builds inside FromBytes
ErrBytesLength == "byte slice must be exactly 16 bytes"

\* the error of a failed rand.Read
ErrRand == "crypto/rand: read failed"

\* mutant of hexChars: the upper-case digits are forgotten
hexCharsLowerOnly ==
  <<48, 49, 50, 51, 52, 53, 54, 55, 56, 57, 97, 98, 99, 100, 101, 102>>

\* "0123456789abcdefABCDEF", the set FromUUID validates against
hexChars ==
  <<48, 49, 50, 51, 52, 53, 54, 55, 56, 57,
    97, 98, 99, 100, 101, 102, 65, 66, 67, 68, 69, 70>>

\* mutant of hextable: the table holds upper-case letters
hextableUpper ==
  <<48, 49, 50, 51, 52, 53, 54, 55, 56, 57, 65, 66, 67, 68, 69, 70>>

\* "0123456789abcdef", the table of hex.EncodeToString
hextable ==
  <<48, 49, 50, 51, 52, 53, 54, 55, 56, 57, 97, 98, 99, 100, 101, 102>>

\* '-'
Hyphen == 45

\* the four indices FromUUID tests, in the order of the || chain
HyphenIdx == <<8, 13, 18, 23>>

---------------------------------------------------------------------------
(* uint64 arithmetic on four 16-bit limbs, most significant first *)

LimbBase == 256 * 256

U64Zero == <<0, 0, 0, 0>>

U64 == [1..4 -> 0..(LimbBase - 1)]

RECURSIVE DivLimbs(_, _, _, _)
\* long division of the limbs v[i..4] by d with incoming remainder r
DivLimbs(v, d, i, r) ==
  IF i > 4 THEN [quo |-> <<>>, rem |-> r]
  ELSE LET t == r * LimbBase + v[i]
           rest == DivLimbs(v, d, i + 1, t % d)
       IN  [quo |-> <<t \div d>> \o rest.quo, rem |-> rest.rem]

\* value / d
U64Div(value, d) == DivLimbs(value, d, 1, 0).quo

\* value % d
U64Mod(value, d) == DivLimbs(value, d, 1, 0).rem

RECURSIVE MulAddLimbs(_, _, _, _)
\* v[1..i] * m + carry, least significant limb first; the carry out of the
\* most significant limb is dropped, which is the wrap modulo 2^64
MulAddLimbs(v, m, i, carry) ==
  IF i < 1 THEN <<>>
  ELSE LET t == v[i] * m + carry
       IN  MulAddLimbs(v, m, i - 1, t \div LimbBase) \o <<t % LimbBase>>

\* value*m + d, in uint64
U64MulAdd(value, m, d) == MulAddLimbs(value, m, 4, d)

\* mutant of BigEndianUint64: the bytes are read least significant first
LittleEndianUint64(b) ==
  [i \in 1..4 |-> b[10 - 2 * i] * 256 + b[9 - 2 * i]]

\* binary.BigEndian.Uint64(b), b of 8 bytes
BigEndianUint64(b) ==
  [i \in 1..4 |-> b[2 * i - 1] * 256 + b[2 * i]]

\* binary.BigEndian.PutUint64: the 8 bytes of v
BigEndianPutUint64(v) ==
  [i \in 1..8 |-> IF i % 2 = 1 THEN v[(i + 1) \div 2] \div 256
                               ELSE v[i \div 2] % 256]

---------------------------------------------------------------------------
(* Helpers of package strings and encoding/hex *)

\* mutant of IndexByte: the index is counted from 1
IndexByteOneBased(s, c) ==
  IF \E i \in 1..Len(s) : s[i] = c
  THEN CHOOSE i \in 1..Len(s) : s[i] = c /\ \A j \in 1..(i - 1) : s[j] # c
  ELSE -1

\* strings.IndexByte(s, c): index of the first c in s, or -1
IndexByte(s, c) ==
  IF \E i \in 1..Len(s) : s[i] = c
  THEN (CHOOSE i \in 1..Len(s) : s[i] = c /\ \A j \in 1..(i - 1) : s[j] # c) - 1
  ELSE -1

\* strings.ContainsRune(chars, c), chars ASCII, for the rune that ranging
\* over a string yields at byte c: a byte below 0x80 is its own rune; a byte
\* from 0x80 on is decoded, alone or with its neighbours, to U+FFFD or to a
\* rune from U+0080 on, and neither is in chars
ContainsRune(chars, c) == \E i \in 1..Len(chars) : chars[i] = c

\* strings.HasPrefix(s, prefix)
HasPrefix(s, prefix) ==
  Len(s) >= Len(prefix) /\ SubSeq(s, 1, Len(prefix)) = prefix

\* strings.ReplaceAll(s, string(c), ""): s without its bytes c
RemoveAll(s, c) == SelectSeq(s, LAMBDA x : x # c)

\* hex.fromHexChar
fromHexChar(c) ==
  IF c >= 48 /\ c <= 57 THEN c - 48
  ELSE IF c >= 97 /\ c <= 102 THEN c - 97 + 10
  ELSE IF c >= 65 /\ c <= 70 THEN c - 65 + 10
  ELSE -1

\* hex.DecodeString(s)
hexDecodeString(s) ==
  IF \E i \in 1..Len(s) : fromHexChar(s[i]) < 0
  THEN [bytes |-> <<>>, err |-> "encoding/hex: invalid byte"]
  ELSE IF Len(s) % 2 = 1
  THEN [bytes |-> <<>>, err |-> "encoding/hex: odd length hex string"]
  ELSE [bytes |-> [i \in 1..(Len(s) \div 2) |->
                     fromHexChar(s[2 * i - 1]) * 16 + fromHexChar(s[2 * i])],
        err |-> ErrNil]

\* hex.EncodeToString(b)
hexEncodeToString(b) ==
  [i \in 1..(2 * Len(b)) |->
     IF i % 2 = 1 THEN hextable[(b[(i + 1) \div 2] \div 16) + 1]
                  ELSE hextable[(b[i \div 2] % 16) + 1]]

---------------------------------------------------------------------------
(* The package *)

NilKUID == <<>>

Ref(msb, lsb) == <<[msb |-> msb, lsb |-> lsb]>>

\* what a call hands back: the identifier, the error, and whether it panicked
Ret(kuid, e) == [k |-> kuid, err |-> e, panic |-> FALSE]

Panic == [k |-> NilKUID, err |-> ErrNil, panic |-> TRUE]

\* FromBytes
FromBytes(b) ==
  IF Len(b) # 16 THEN Ret(NilKUID, ErrBytesLength)
  ELSE Ret(Ref(BigEndianUint64(SubSeq(b, 1, 8)),
               BigEndianUint64(SubSeq(b, 9, 16))), ErrNil)

RECURSIVE hyphenCheck(_, _)
\* the condition uuid[8] != '-' || uuid[13] != '-' || uuid[18] != '-' ||
\* uuid[23] != '-', evaluated left to right from the j-th index on:
\* "panic" when an index is out of range, "bad" when a byte is no hyphen
hyphenCheck(uuid, j) ==
  IF j > Len(HyphenIdx) THEN "ok"
  ELSE IF HyphenIdx[j] >= Len(uuid) THEN "panic"
  ELSE IF uuid[HyphenIdx[j] + 1] # Hyphen THEN "bad"
  ELSE hyphenCheck(uuid, j + 1)

\* FromUUID
FromUUID(uuid) ==
  IF ~HasPrefix(uuid, <<>>) /\ Len(uuid) # 36 THEN Ret(NilKUID, ErrInvalidUUID)
  ELSE LET h == hyphenCheck(uuid, 1)
           clean == RemoveAll(uuid, Hyphen)
           dec == hexDecodeString(clean)
       IN  IF h = "panic" THEN Panic
           ELSE IF h = "bad" THEN Ret(NilKUID, ErrInvalidUUID)
           ELSE IF Len(clean) # 32 THEN Ret(NilKUID, ErrInvalidUUID)
           ELSE IF \E i \in 1..Len(clean) : ~ContainsRune(hexChars, clean[i])
                THEN Ret(NilKUID, ErrInvalidUUID)
           ELSE IF dec.err # ErrNil THEN Ret(NilKUID, ErrInvalidUUID)
           ELSE FromBytes(dec.bytes)

RECURSIVE encodeLoopStopEarly(_, _, _)
\* mutant of encodeLoop: the loop runs while i > 0 and leaves index 0 unset
encodeLoopStopEarly(i, value, bytes) ==
  IF i > 0
  THEN encodeLoopStopEarly(i - 1, U64Div(value, base),
                  [bytes EXCEPT ![i + 1] = base62Chars[U64Mod(value, base) + 1]])
  ELSE [bytes |-> bytes, value |-> value]

RECURSIVE encodeLoop(_, _, _)
\* the loop of encodeLong from index i down to 0; yields the bytes and the
\* working value left when the loop ends
encodeLoop(i, value, bytes) ==
  IF i >= 0
  THEN encodeLoop(i - 1, U64Div(value, base),
                  [bytes EXCEPT ![i + 1] = base62Chars[U64Mod(value, base) + 1]])
  ELSE [bytes |-> bytes, value |-> value]

\* encodeLong
encodeLong(value) == encodeLoop(size - 1, value, [i \in 1..size |-> 0]).bytes

RECURSIVE decodeLoop(_, _, _)
\* the loop of decodeLong from index i on
decodeLoop(s, i, value) ==
  IF i < Len(s)
  THEN LET digit == IndexByte(base62Chars, s[i + 1])
       IN  IF digit < 0 THEN [value |-> U64Zero, err |-> ErrInvalidChar]
           ELSE decodeLoop(s, i + 1, U64MulAdd(value, base, digit))
  ELSE [value |-> value, err |-> ErrNil]

\* decodeLong
decodeLong(s) ==
  IF Len(s) # size THEN [value |-> U64Zero, err |-> ErrInvalidLength]
  ELSE decodeLoop(s, 0, U64Zero)

\* mutant of String: the halves are written in the wrong order
StringSwapped(kuid) == encodeLong(kuid.lsb) \o encodeLong(kuid.msb)

\* KUID.String, on the value the receiver points to
String(kuid) == encodeLong(kuid.msb) \o encodeLong(kuid.lsb)

\* mutant of FromString: the error of the second half is not looked at
FromStringUncheckedLsb(s) ==
  IF Len(s) # size * 2 THEN Ret(NilKUID, ErrInvalidLength)
  ELSE LET m == decodeLong(SubSeq(s, 1, size))
           l == decodeLong(SubSeq(s, size + 1, Len(s)))
       IN  IF m.err # ErrNil THEN Ret(NilKUID, m.err)
           ELSE Ret(Ref(m.value, l.value), ErrNil)

\* FromString
FromString(s) ==
  IF Len(s) # size * 2 THEN Ret(NilKUID, ErrInvalidLength)
  ELSE LET m == decodeLong(SubSeq(s, 1, size))
           l == decodeLong(SubSeq(s, size + 1, Len(s)))
       IN  IF m.err # ErrNil THEN Ret(NilKUID, m.err)
           ELSE IF l.err # ErrNil THEN Ret(NilKUID, l.err)
           ELSE Ret(Ref(m.value, l.value), ErrNil)

\* KUID.Bytes, on the value the receiver points to
Bytes(kuid) == BigEndianPutUint64(kuid.msb) \o BigEndianPutUint64(kuid.lsb)

\* KUID.ToUUID, on the value the receiver points to
ToUUID(kuid) ==
  LET uuid == hexEncodeToString(Bytes(kuid))
  IN  SubSeq(uuid, 1, 8) \o <<Hyphen>> \o
      SubSeq(uuid, 9, 12) \o <<Hyphen>> \o
      SubSeq(uuid, 13, 16) \o <<Hyphen>> \o
      SubSeq(uuid, 17, 20) \o <<Hyphen>> \o
      SubSeq(uuid, 21, Len(uuid))

\* KUID.Equal with receiver pointer kp and argument pointer other:
\* the nil test of other comes first, then both are dereferenced
Equal(kp, other) ==
  IF other = NilKUID THEN [val |-> FALSE, panic |-> FALSE]
  ELSE IF kp = NilKUID THEN [val |-> FALSE, panic |-> TRUE]
  ELSE [val |-> kp[1].msb = other[1].msb /\ kp[1].lsb = other[1].lsb,
        panic |-> FALSE]

---------------------------------------------------------------------------
(* Inputs the callers draw from *)

\* "123e4567-e89b-12d3-a456-426614174000" (kuid_test.go:54)
UUIDRandom1 ==
  <<49, 50, 51, 101, 52, 53, 54, 55, 45, 101, 56, 57, 98, 45, 49, 50, 100, 51,
    45, 97, 52, 53, 54, 45, 52, 50, 54, 54, 49, 52, 49, 55, 52, 48, 48, 48>>

\* "D9DB5CF3-c755-4F76-8746-04120f2644c6" (kuid_test.go:58, in mixed case)
UUIDMixedCase ==
  <<68, 57, 68, 66, 53, 67, 70, 51, 45, 99, 55, 53, 53, 45, 52, 70, 55, 54,
    45, 56, 55, 52, 54, 45, 48, 52, 49, 50, 48, 102, 50, 54, 52, 52, 99, 54>>

\* "ffffffff-ffff-ffff-ffff-ffffffffffff" (kuid_test.go:50)
UUIDMax ==
  <<102, 102, 102, 102, 102, 102, 102, 102, 45, 102, 102, 102, 102, 45,
    102, 102, 102, 102, 45, 102, 102, 102, 102, 45,
    102, 102, 102, 102, 102, 102, 102, 102, 102, 102, 102, 102>>

\* "123e4567e-89b-12d3-a456-426614174000": 36 bytes, the first hyphen one
\* index late
UUIDShifted ==
  <<49, 50, 51, 101, 52, 53, 54, 55, 101, 45, 56, 57, 98, 45, 49, 50, 100, 51,
    45, 97, 52, 53, 54, 45, 52, 50, 54, 54, 49, 52, 49, 55, 52, 48, 48, 48>>

BaseUUIDs == {UUIDRandom1, UUIDMixedCase, UUIDMax, UUIDShifted}

\* '-', 'g', 'F', ':' and the byte 0xC3, which is no ASCII character
UUIDEditChars == {45, 103, 70, 58, 195}

\* strings.Repeat("A", size*2) (kuid_test.go:104)
StrAllA == [i \in 1..(size * 2) |-> 65]

\* "LygHa16AHYF" twice: both halves hold the largest uint64
StrMaxMax ==
  <<76, 121, 103, 72, 97, 49, 54, 65, 72, 89, 70,
    76, 121, 103, 72, 97, 49, 54, 65, 72, 89, 70>>

\* "4B1FkY2xHJRF6PTYR8Xj2Z" (the example of the package's documentation)
StrReadme ==
  <<52, 66, 49, 70, 107, 89, 50, 120, 72, 74, 82,
    70, 54, 80, 84, 89, 82, 56, 88, 106, 50, 90>>

BaseStrings == {StrAllA, StrMaxMax, StrReadme}

\* '!', 'z', '0', '[' and '{'
StrEditChars == {33, 122, 48, 91, 123}

BytesZero == [i \in 1..16 |-> 0]

BytesCount == [i \in 1..16 |-> i]

BytesHigh == [i \in 1..16 |-> 256 - i]

BaseBytes == {BytesZero, BytesCount, BytesHigh}

ByteEditValues == {0, 127, 255}

\* the 8-byte halves rand.Read may deliver
HalfBytes ==
  { <<0, 0, 0, 0, 0, 0, 0, 0>>,
    <<255, 255, 255, 255, 255, 255, 255, 255>>,
    <<0, 0, 0, 0, 0, 0, 0, 1>>,
    <<0, 0, 0, 0, 0, 0, 0, 61>>,
    <<0, 0, 0, 0, 0, 0, 0, 62>>,
    <<128, 0, 0, 0, 0, 0, 0, 0>>,
    <<127, 255, 255, 255, 255, 255, 255, 255>>,
    <<1, 2, 3, 4, 5, 6, 7, 8>>,
    <<18, 62, 69, 103, 232, 155, 18, 211>>,
    <<164, 86, 66, 102, 20, 23, 64, 0>>,
    <<0, 0, 0, 1, 0, 0, 0, 0>>,
    <<255, 255, 255, 255, 255, 255, 255, 254>> }

RandBufs == {a \o b : a \in HalfBytes, b \in HalfBytes}

---------------------------------------------------------------------------
(* The callers: a caller prepares an input, calls a constructor on it and  *)
(* then calls methods on the identifier it got.  calls is the sequence of  *)
(* calls made so far, k the identifier of the first constructor, k2 the    *)
(* identifier of a second one, err the error of the last constructor, out  *)
(* the value the last method returned.                                     *)

Last(s) == s[Len(s)]

InitVars ==
  /\ edits = 0
  /\ calls = <<>>
  /\ k = NilKUID
  /\ k2 = NilKUID
  /\ err = ErrNil
  /\ out = <<>>
  /\ panicked = FALSE

\* the caller overwrites one byte of its input
ReplaceChar(C) ==
  /\ calls = <<>>
  /\ edits < MaxEdits
  /\ \E i \in 1..Len(input), c \in C :
       /\ input[i] # c
       /\ input' = [input EXCEPT ![i] = c]
  /\ edits' = edits + 1
  /\ UNCHANGED <<calls, k, k2, err, out, panicked>>

\* the caller inserts one byte into its input
InsertChar(C) ==
  /\ calls = <<>>
  /\ edits < MaxEdits
  /\ \E i \in 0..Len(input), c \in C :
       input' = SubSeq(input, 1, i) \o <<c>> \o SubSeq(input, i + 1, Len(input))
  /\ edits' = edits + 1
  /\ UNCHANGED <<calls, k, k2, err, out, panicked>>

\* the caller cuts its input short
Truncate ==
  /\ calls = <<>>
  /\ edits < MaxEdits
  /\ \E n \in 0..(Len(input) - 1) : input' = SubSeq(input, 1, n)
  /\ edits' = edits + 1
  /\ UNCHANGED <<calls, k, k2, err, out, panicked>>

\* a constructor called on the input: its results go to k and err
Construct(name, r) ==
  /\ calls = <<>>
  /\ calls' = <<name>>
  /\ k' = r.k
  /\ err' = r.err
  /\ panicked' = r.panic
  /\ UNCHANGED <<input, edits, k2, out>>

\* a constructor called on what the last method returned: results to k2
Reconstruct(method, name, r) ==
  /\ calls # <<>>
  /\ Last(calls) = method
  /\ ~panicked
  /\ calls' = Append(calls, name)
  /\ k2' = r.k
  /\ err' = r.err
  /\ panicked' = r.panic
  /\ UNCHANGED <<input, edits, k, out>>

\* a method called on the identifier k of a constructor that reported no
\* error; the receiver is dereferenced, so a nil receiver panics
Method(name, result) ==
  /\ Len(calls) = 1
  /\ ~panicked
  /\ err = ErrNil
  /\ calls' = Append(calls, name)
  /\ IF k = NilKUID
     THEN panicked' = TRUE /\ out' = out
     ELSE panicked' = FALSE /\ out' = result
  /\ UNCHANGED <<input, edits, k, k2, err>>

\* NewKUID: rand.Read fails, or fills the buffer
NewKUIDResult(ok, buf) ==
  IF ~ok THEN Ret(NilKUID, ErrRand)
  ELSE Ret(Ref(BigEndianUint64(SubSeq(buf, 1, 8)),
               BigEndianUint64(SubSeq(buf, 9, 16))), ErrNil)

NewKUID ==
  /\ input = <<>>
  /\ edits = 0
  /\ \E ok \in BOOLEAN, buf \in RandBufs : Construct("NewKUID", NewKUIDResult(ok, buf))

\* a second NewKUID, for the other operand of Equal
NewOther ==
  /\ calls = <<"NewKUID">>
  /\ \E ok \in BOOLEAN, buf \in RandBufs :
       LET r == NewKUIDResult(ok, buf)
       IN  /\ k2' = r.k
           /\ calls' = Append(calls, "NewKUID")
           /\ UNCHANGED <<input, edits, k, err, out, panicked>>

CallFromUUID == Construct("FromUUID", FromUUID(input))

CallFromString == Construct("FromString", FromString(input))

CallFromBytes == Construct("FromBytes", FromBytes(input))

CallString == Method("String", String(k[1]))

CallToUUID == Method("ToUUID", ToUUID(k[1]))

CallBytes == Method("Bytes", Bytes(k[1]))

\* FromString(kuid.String()), as in kuid_test.go:71-72
CallFromStringOut == Reconstruct("String", "FromString", FromString(out))

\* FromBytes(kuid.Bytes())
CallFromBytesOut == Reconstruct("Bytes", "FromBytes", FromBytes(out))

\* a.Equal(b); out records the operands and the answer
DoEqual(a, b) ==
  /\ ~panicked
  /\ LET r == Equal(a, b)
     IN  /\ out' = [recv |-> a, arg |-> b, val |-> r.val]
         /\ panicked' = r.panic
  /\ calls' = Append(calls, "Equal")
  /\ UNCHANGED <<input, edits, k, k2, err>>

\* kuid.Equal(decoded), as in kuid_test.go:78
CallEqualDecoded ==
  /\ Len(calls) = 3
  /\ Last(calls) \in {"FromString", "FromBytes"}
  /\ DoEqual(k, k2)

\* Equal on the two identifiers of the caller, in either order, or on one
\* identifier and itself
CallEqual ==
  /\ calls # <<>>
  /\ Last(calls) = "NewKUID"
  /\ \E p \in {<<k, k2>>, <<k2, k>>, <<k, k>>} : DoEqual(p[1], p[2])

---------------------------------------------------------------------------
(* Specifications, one for each representation *)

InitUUID == input \in BaseUUIDs \cup {<<>>} /\ InitVars

ReplaceUUIDChar == ReplaceChar(UUIDEditChars)

InsertUUIDChar == InsertChar(UUIDEditChars)

NextUUID ==
  \/ ReplaceUUIDChar
  \/ InsertUUIDChar
  \/ Truncate
  \/ NewKUID
  \/ CallFromUUID
  \/ CallToUUID

SpecUUID == InitUUID /\ [][NextUUID]_vars

InitString == input \in BaseStrings \cup {<<>>} /\ InitVars

ReplaceStrChar == ReplaceChar(StrEditChars)

InsertStrChar == InsertChar(StrEditChars)

NextString ==
  \/ ReplaceStrChar
  \/ InsertStrChar
  \/ Truncate
  \/ NewKUID
  \/ CallFromString
  \/ CallString
  \/ CallFromStringOut
  \/ CallEqualDecoded

SpecString == InitString /\ [][NextString]_vars

InitBytes == input \in BaseBytes \cup {<<>>} /\ InitVars

ReplaceByte == ReplaceChar(ByteEditValues)

InsertByte == InsertChar(ByteEditValues)

NextBytes ==
  \/ ReplaceByte
  \/ InsertByte
  \/ Truncate
  \/ NewKUID
  \/ CallFromBytes
  \/ CallBytes
  \/ CallFromBytesOut
  \/ CallEqualDecoded

SpecBytes == InitBytes /\ [][NextBytes]_vars

InitEqual == input = <<>> /\ InitVars

NextEqual ==
  \/ NewKUID
  \/ NewOther
  \/ CallEqual

SpecEqual == InitEqual /\ [][NextEqual]_vars

---------------------------------------------------------------------------
(* Vocabulary of the properties, stated without the package's operators *)

IsHexDigit(c) == c \in (48..57) \cup (97..102) \cup (65..70)

InAlphabet(c) == c \in (48..57) \cup (65..90) \cup (97..122)

\* the value of a hexadecimal digit
HexValue(c) == IF c <= 57 THEN c - 48 ELSE IF c >= 97 THEN c - 87 ELSE c - 55

\* the value of a base-62 digit
DigitValue(c) == IF c <= 57 THEN c - 48 ELSE IF c >= 97 THEN c - 61 ELSE c - 55

\* the 1-based places of the hyphens of a UUID text
HyphenPlaces == {9, 14, 19, 24}

\* 36 bytes, hyphens at the four places, hexadecimal digits elsewhere
WellFormedUUID(u) ==
  /\ Len(u) = 36
  /\ \A i \in 1..36 : IF i \in HyphenPlaces THEN u[i] = 45 ELSE IsHexDigit(u[i])

\* the 32 digits of a 36-byte text, in order
DigitsOf(u) == SelectSeq([i \in 1..Len(u) |-> IF i \in HyphenPlaces THEN 0 ELSE u[i]],
                         LAMBDA x : x # 0)

ToLower(s) == [i \in 1..Len(s) |-> IF s[i] \in 65..90 THEN s[i] + 32 ELSE s[i]]

\* byte j (1..16) of the 128 bits of an identifier, most significant first
ByteAt(kuid, j) ==
  LET limbs == kuid.msb \o kuid.lsb
  IN  IF j % 2 = 1 THEN limbs[(j + 1) \div 2] \div 256 ELSE limbs[j \div 2] % 256

RECURSIVE Base62Value(_, _)
\* the number the first n base-62 digits of s denote, on five limbs, so
\* that no 11-digit number overflows
Base62Value(s, n) ==
  IF n = 0 THEN <<0, 0, 0, 0, 0>>
  ELSE LET v == Base62Value(s, n - 1)
           l5 == v[5] * 62 + DigitValue(s[n])
           l4 == v[4] * 62 + l5 \div 65536
           l3 == v[3] * 62 + l4 \div 65536
           l2 == v[2] * 62 + l3 \div 65536
           l1 == v[1] * 62 + l2 \div 65536
       IN  <<l1, l2 % 65536, l3 % 65536, l4 % 65536, l5 % 65536>>

\* an 11-digit half whose number is below 2^64
FitsUint64(half) == Base62Value(half, Len(half))[1] = 0

AllInAlphabet(s) == \A i \in 1..Len(s) : InAlphabet(s[i])

SameHalves(a, b) == a[1].msb = b[1].msb /\ a[1].lsb = b[1].lsb

U64Max == <<65535, 65535, 65535, 65535>>

---------------------------------------------------------------------------
(* Properties of FromUUID and ToUUID, checked under SpecUUID *)

\* C1: FromUUID answers every input whose length is not 36 with
\* ErrInvalidUUID and a nil identifier, without panicking.
C1_WrongLengthRejected ==
  (calls = <<"FromUUID">> /\ Len(input) # 36)
    => (~panicked /\ err = ErrInvalidUUID /\ k = NilKUID)

\* C2: on a 36-byte input FromUUID succeeds exactly when the input has its
\* hyphens at indices 8, 13, 18, 23 and hexadecimal digits elsewhere;
\* otherwise it returns ErrInvalidUUID and nil; on success the 16 bytes of
\* the identifier are the hex decoding of the 32 digits in order.
C2_FromUUIDAccepts ==
  (calls = <<"FromUUID">> /\ Len(input) = 36)
    => /\ ~panicked
       /\ WellFormedUUID(input) <=> (err = ErrNil /\ k # NilKUID)
       /\ ~WellFormedUUID(input) => (err = ErrInvalidUUID /\ k = NilKUID)
       /\ WellFormedUUID(input) =>
            \A j \in 1..16 :
              ByteAt(k[1], j) = HexValue(DigitsOf(input)[2 * j - 1]) * 16
                                + HexValue(DigitsOf(input)[2 * j])

\* C2 witness: a 36-byte input edited to hold an upper-case digit is accepted
C2_Witness ==
  /\ calls = <<"FromUUID">>
  /\ edits >= 1
  /\ Len(input) = 36
  /\ input # ToLower(input)
  /\ err = ErrNil
  /\ k # NilKUID

\* C5: for a well-formed 36-byte text u, FromUUID(u).ToUUID() is u in lower
\* case; every ToUUID output has 36 bytes, hyphens at indices 8, 13, 18, 23
\* and lower-case hexadecimal digits elsewhere.
C5_ToUUIDRoundTrip ==
  /\ (calls = <<"FromUUID", "ToUUID">> /\ WellFormedUUID(input))
       => (~panicked /\ out = ToLower(input))
  /\ (calls # <<>> /\ Last(calls) = "ToUUID" /\ ~panicked)
       => /\ Len(out) = 36
          /\ \A i \in 1..36 :
               IF i \in HyphenPlaces THEN out[i] = 45
               ELSE out[i] \in (48..57) \cup (97..102)

\* C5 witness: a mixed-case text went through FromUUID and ToUUID
C5_Witness ==
  /\ calls = <<"FromUUID", "ToUUID">>
  /\ WellFormedUUID(input)
  /\ input # ToLower(input)
  /\ ~panicked

---------------------------------------------------------------------------
(* Properties of the base-62 codec, checked under SpecString *)

\* C3: for every identifier id, FromString(id.String()) succeeds and is
\* Equal to id; each half decodes back to the uint64 it encodes, the first
\* 11 bytes to msb and the last 11 to lsb.
C3_StringRoundTrip ==
  /\ (calls # <<>> /\ Last(calls) = "String" /\ ~panicked)
       => /\ decodeLong(SubSeq(out, 1, 11)) = [value |-> k[1].msb, err |-> ErrNil]
          /\ decodeLong(SubSeq(out, 12, 22)) = [value |-> k[1].lsb, err |-> ErrNil]
  /\ (Len(calls) >= 3 /\ calls[2] = "String" /\ calls[3] = "FromString")
       => /\ err = ErrNil
          /\ k2 # NilKUID
          /\ SameHalves(k, k2)
          /\ ~panicked
          /\ Last(calls) = "Equal" => out.val = TRUE

\* C3 witness: an identifier with unequal halves, one of them the largest
\* uint64, went through String, FromString and Equal
C3_Witness ==
  /\ calls = <<"NewKUID", "String", "FromString", "Equal">>
  /\ k # NilKUID
  /\ k[1].msb = U64Max
  /\ k[1].lsb # U64Max

\* C4: for every string s FromString accepts, FromString(s).String() is s,
\* also when a half denotes a number of 2^64 or more.
C4_ReencodeAnyAccepted ==
  (calls = <<"FromString", "String">> /\ ~panicked) => out = input

\* C4 as amended: for every string s FromString accepts, FromString(s).String()
\* is s exactly when each 11-byte half denotes a number below 2^64.
C4_ReencodeCanonical ==
  (calls = <<"FromString", "String">> /\ ~panicked)
    => (out = input <=> (/\ FitsUint64(SubSeq(input, 1, 11))
                         /\ FitsUint64(SubSeq(input, 12, 22))))

\* C4 witness: an edited string with both halves below 2^64 was decoded and
\* encoded again
C4_Witness ==
  /\ calls = <<"FromString", "String">>
  /\ edits >= 1
  /\ ~panicked
  /\ FitsUint64(SubSeq(input, 1, 11))
  /\ FitsUint64(SubSeq(input, 12, 22))

\* C9: FromString returns ErrInvalidLength for every input not of 22 bytes,
\* ErrInvalidChar for every 22-byte input with a byte outside the alphabet
\* in either half, succeeds on every other input, and returns a nil
\* identifier with every error.
C9_FromStringErrors ==
  calls = <<"FromString">>
    => /\ ~panicked
       /\ Len(input) # 22 => err = ErrInvalidLength
       /\ (Len(input) = 22 /\ ~AllInAlphabet(input)) => err = ErrInvalidChar
       /\ (Len(input) = 22 /\ AllInAlphabet(input)) => (err = ErrNil /\ k # NilKUID)
       /\ err # ErrNil => k = NilKUID

\* C9 witness: a 22-byte input whose only foreign byte is in the second half
C9_Witness ==
  /\ calls = <<"FromString">>
  /\ Len(input) = 22
  /\ AllInAlphabet(SubSeq(input, 1, 11))
  /\ ~AllInAlphabet(SubSeq(input, 12, 22))
  /\ err = ErrInvalidChar

\* C10: for every uint64 the loop of encodeLong ends with the working value
\* 0 and yields 11 alphabet bytes that denote the value in base 62, padded
\* with '0'; String() is the 22 bytes Encode(msb) then Encode(lsb).
C10_EncodeWidth ==
  /\ k # NilKUID =>
       \A v \in {k[1].msb, k[1].lsb} :
         LET e == encodeLoop(size - 1, v, [i \in 1..size |-> 0])
         IN  /\ e.value = U64Zero
             /\ Len(e.bytes) = 11
             /\ AllInAlphabet(e.bytes)
             /\ Base62Value(e.bytes, 11) = <<0>> \o v
  /\ (calls # <<>> /\ Last(calls) = "String" /\ ~panicked)
       => /\ Len(out) = 22
          /\ AllInAlphabet(out)
          /\ Base62Value(SubSeq(out, 1, 11), 11) = <<0>> \o k[1].msb
          /\ Base62Value(SubSeq(out, 12, 22), 11) = <<0>> \o k[1].lsb

\* C10 witness: String() of an identifier whose msb is the largest uint64
\* and whose lsb is 1
C10_Witness ==
  /\ calls # <<>>
  /\ Last(calls) = "String"
  /\ ~panicked
  /\ k[1].msb = U64Max
  /\ k[1].lsb = <<0, 0, 0, 1>>

---------------------------------------------------------------------------
(* Properties of FromBytes and Bytes, checked under SpecBytes *)

\* C6: FromBytes succeeds exactly on 16 bytes; on every other length it
\* returns nil and the error is ErrInvalidLength.
C6_FromBytesInvalidLength ==
  calls = <<"FromBytes">>
    => /\ ~panicked
       /\ Len(input) = 16 <=> (err = ErrNil /\ k # NilKUID)
       /\ Len(input) # 16 => (k = NilKUID /\ err = ErrInvalidLength)

\* C7: for 16 bytes b, FromBytes(b).Bytes() is b, bytes 0..7 being msb and
\* bytes 8..15 lsb, most significant byte first; for every identifier id,
\* FromBytes(id.Bytes()) is Equal to id.
C7_BytesRoundTrip ==
  /\ (calls = <<"FromBytes">> /\ Len(input) = 16)
       => /\ err = ErrNil
          /\ k # NilKUID
          /\ \A j \in 1..16 : ByteAt(k[1], j) = input[j]
  /\ calls = <<"FromBytes", "Bytes">> => (~panicked /\ out = input)
  /\ (Len(calls) >= 3 /\ calls[2] = "Bytes" /\ calls[3] = "FromBytes")
       => /\ err = ErrNil
          /\ k2 # NilKUID
          /\ SameHalves(k, k2)
          /\ ~panicked
          /\ Last(calls) = "Equal" => out.val = TRUE

\* C7 witness: 16 edited bytes went through FromBytes, Bytes, FromBytes and
\* Equal
C7_Witness ==
  /\ calls = <<"FromBytes", "Bytes", "FromBytes", "Equal">>
  /\ edits >= 1
  /\ Len(input) = 16
  /\ k # NilKUID
  /\ k[1].msb # k[1].lsb

---------------------------------------------------------------------------
(* Property of Equal, checked under SpecEqual *)

\* C8: Equal(a, b) is true exactly when a and b are both non-nil and have
\* the same msb and lsb; with a nil receiver or a nil argument it is false
\* and does not panic.
C8_EqualNilSafe ==
  (calls # <<>> /\ Last(calls) = "Equal")
    => /\ ~panicked
       /\ out.val <=> (/\ out.recv # NilKUID
                       /\ out.arg # NilKUID
                       /\ SameHalves(out.recv, out.arg))

=============================================================================
